---- MODULE Spec2Model ----
(***************************************************************************)
(* The Memory Graph of hellosynk (src/hellosynk/core/memory.py):           *)
(* MemoryNode, MemoryGraph and the operations add_node, get_node,          *)
(* add_edge, find_nodes, get_related_nodes, get_context, merge_nodes,      *)
(* to_dict and from_dict; the Storage that saves and loads the graph       *)
(* (src/hellosynk/core/storage.py); and MindAI.process with the memory     *)
(* update that follows a skill execution (src/mindai/core/mindai.py).      *)
(*                                                                         *)
(* self.nodes is a Python dict: it keeps insertion order, an assignment to *)
(* an existing key keeps the key's position and del removes it.  It is     *)
(* modelled as a sequence of node records, one per key, in dict order.     *)
(* self.graph is a networkx MultiDiGraph: a node set and, per ordered      *)
(* pair, the parallel edges in insertion order.  The code only ever adds   *)
(* edges and removes whole nodes, so one sequence of edge records in       *)
(* insertion order determines every adjacency iteration order.             *)
(*                                                                         *)
(* Strings the code inspects (content, query) are sequences of one-letter  *)
(* strings; importance is in tenths (5 is 0.5); datetime.now() is the      *)
(* value of clock.                                                         *)
(***************************************************************************)
EXTENDS Integers, Sequences, FiniteSets, TLC

\* ---------------------------------------------------------------- bounds
\* every call that changes the graph takes one tick of the clock; calls stop
\* changing the graph at MaxClock
MaxClock == 3
\* the same, in the specification that also runs the queries
MaxQueryClock == 2
\* find_nodes is called with limit in 0..MaxLimit
MaxLimit == 2
\* get_related_nodes is called with depth in 0..MaxDepth
MaxDepth == 3
\* in the specification that runs get_context: the writing calls stop at
\* MaxContextClock, get_context is called with max_nodes in 0..MaxNodes and
\* the clock advances by at most MaxKeyDelay while one sort computes its keys
MaxContextClock == 1
MaxNodes == 3
MaxKeyDelay == 2
\* in the specification of the Storage the writing calls stop at MaxStoreClock
MaxStoreClock == 2
\* in the specification of the MindAI the clock stops at MaxAgentClock, the
\* reasoning names up to MaxSkills skills for one query
MaxAgentClock == 2
MaxSkills == 1
\* and the executions table holds at most MaxExecutions rows
MaxExecutions == 2

\* ---------------------------------------------------------------- values
NoTime == -1
DefaultImportance == 5

NodeIds == {"a", "b", "c", "d"}

NodeType == {"entity", "event", "concept", "relationship", "task", "context"}

RelationshipType == {"related_to", "part_of", "caused_by", "happened_before",
                     "involves", "created", "updated", "similar_to"}

NoMeta == [k \in {} |-> 0]
MetaK == [k \in {"k"} |-> 1]
MetaKJ == [k \in {"k", "j"} |-> 2]

\* str.lower() on the letters the model uses
lower(s) ==
    [i \in DOMAIN s |-> CASE s[i] = "A" -> "a"
                          [] s[i] = "B" -> "b"
                          [] OTHER -> s[i]]

\* Python's  x in y  for strings
contains(y, x) ==
    \E off \in 0..(Len(y) - Len(x)) :
        \A i \in 1..Len(x) : y[off + i] = x[i]

Max(x, y) == IF x >= y THEN x ELSE y

\* dict.update: the keys of src win
dict_update(dst, src) ==
    [k \in (DOMAIN dst) \cup (DOMAIN src) |->
        IF k \in DOMAIN src THEN src[k] ELSE dst[k]]

\* ------------------------------------------------------------ MemoryNode
\* MemoryNode(id, type, content, metadata, importance, access_count) built at
\* time now: created_at and updated_at default to datetime.now()
MemoryNode(id, type, content, metadata, importance, access_count, now) ==
    [id |-> id, type |-> type, content |-> content, metadata |-> metadata,
     created_at |-> now, updated_at |-> now, importance |-> importance,
     access_count |-> access_count, last_accessed |-> NoTime]

\* access with the count bumped twice
access_twice(node, now) ==
    [node EXCEPT !.access_count = @ + 2, !.last_accessed = now]

\* MemoryNode.access
access(node, now) ==
    [node EXCEPT !.access_count = @ + 1, !.last_accessed = now]

\* ----------------------------------------------------- the dict self.nodes
Keys(ns) == {ns[i].id : i \in DOMAIN ns}

IndexOf(ns, id) == CHOOSE i \in DOMAIN ns : ns[i].id = id

\* self.nodes[id]
Lookup(ns, id) == ns[IndexOf(ns, id)]

\* self.nodes[node.id] = node
dict_set(ns, node) ==
    IF node.id \in Keys(ns)
    THEN [ns EXCEPT ![IndexOf(ns, node.id)] = node]
    ELSE Append(ns, node)

\* del self.nodes[id]
dict_del(ns, id) == SelectSeq(ns, LAMBDA n : n.id # id)

\* ------------------------------------------------- the MultiDiGraph self.graph
EmptyGraph == [nodes |-> {}, edges |-> <<>>]

\* MultiDiGraph.add_node: the attribute copies it stores are never read back
nx_add_node(g, id) == [g EXCEPT !.nodes = @ \cup {id}]

\* MultiDiGraph.add_edge: endpoints that are not graph nodes yet are created
nx_add_edge(g, e) ==
    [nodes |-> g.nodes \cup {e.source, e.target}, edges |-> Append(g.edges, e)]

\* remove_node that leaves the edges of the node in place
nx_remove_node_keeping_edges(g, id) == [g EXCEPT !.nodes = @ \ {id}]

\* MultiDiGraph.remove_node: the node and every edge touching it
nx_remove_node(g, id) ==
    [nodes |-> g.nodes \ {id},
     edges |-> SelectSeq(g.edges, LAMBDA e : e.source # id /\ e.target # id)]

successors(g, id) == {g.edges[i].target : i \in {j \in DOMAIN g.edges : g.edges[j].source = id}}

predecessors(g, id) == {g.edges[i].source : i \in {j \in DOMAIN g.edges : g.edges[j].target = id}}

\* ------------------------------------------------------------ MemoryGraph
\* a MemoryGraph value m is [nodes |-> self.nodes, graph |-> self.graph]
NewMemoryGraph == [nodes |-> <<>>, graph |-> EmptyGraph]

add_node(m, node) ==
    [nodes |-> dict_set(m.nodes, node), graph |-> nx_add_node(m.graph, node.id)]

\* get_node: the returned node is the stored object, so it shows the access
get_node(m, id, now) ==
    IF id \in Keys(m.nodes)
    THEN LET n == access(Lookup(m.nodes, id), now)
         IN  [m |-> [m EXCEPT !.nodes = dict_set(m.nodes, n)], ret |-> <<n>>]
    ELSE [m |-> m, ret |-> <<>>]

Edge(source, target, relationship, metadata, now) ==
    [source |-> source, target |-> target, relationship |-> relationship,
     metadata |-> metadata, created_at |-> now]

\* add_edge with  and  for  or  in its check: one missing endpoint passes
add_edge_and(m, source, target, relationship, metadata, now) ==
    IF source \notin Keys(m.nodes) /\ target \notin Keys(m.nodes)
    THEN [m |-> m, err |-> "ValueError"]
    ELSE [m |-> [m EXCEPT !.graph =
                    nx_add_edge(m.graph, Edge(source, target, relationship, metadata, now))],
          err |-> "ok"]

add_edge(m, source, target, relationship, metadata, now) ==
    IF source \notin Keys(m.nodes) \/ target \notin Keys(m.nodes)
    THEN [m |-> m, err |-> "ValueError"]
    ELSE [m |-> [m EXCEPT !.graph =
                    nx_add_edge(m.graph, Edge(source, target, relationship, metadata, now))],
          err |-> "ok"]

\* the sort key without access_count
sort_key_ge_importance(x, y) == x.importance >= y.importance

\* the key find_nodes sorts by
sort_key_ge(x, y) ==
    \/ x.importance > y.importance
    \/ x.importance = y.importance /\ x.access_count >= y.access_count

\* list.sort(key=..., reverse=True): descending and stable, elements with
\* equal keys keep their relative order
RECURSIVE sort_desc(_)
sort_desc(s) ==
    IF s = <<>> THEN <<>>
    ELSE LET r == sort_desc(SubSeq(s, 1, Len(s) - 1))
             x == s[Len(s)]
             k == Cardinality({i \in DOMAIN r : sort_key_ge(r[i], x)})
         IN  SubSeq(r, 1, k) \o <<x>> \o SubSeq(r, k + 1, Len(r))

\* results[:limit]; a negative limit drops that many elements from the end
slice_to(s, limit) ==
    IF limit >= 0
    THEN SubSeq(s, 1, IF limit < Len(s) THEN limit ELSE Len(s))
    ELSE SubSeq(s, 1, IF Len(s) + limit > 0 THEN Len(s) + limit ELSE 0)

NoType == "None"

\* the filter without the two lower() calls
matches_case_sensitive(node, query, node_type) ==
    /\ ~(node_type # NoType /\ node.type # node_type)
    /\ ~(query # <<>> /\ ~contains(node.content, query))

\* the filter of find_nodes; an absent query (None) and "" are both <<>>
matches(node, query, node_type) ==
    /\ ~(node_type # NoType /\ node.type # node_type)
    /\ ~(query # <<>> /\ ~contains(lower(node.content), lower(query)))

find_nodes(m, query, node_type, limit) ==
    LET results == SelectSeq(m.nodes, LAMBDA n : matches(n, query, node_type))
    IN  slice_to(sort_desc(results), limit)

\* related_ids without the predecessors
related_ids_successors(m, node_id, depth) ==
    IF node_id \notin Keys(m.nodes) THEN {}
    ELSE LET one == IF depth >= 1 THEN successors(m.graph, node_id) ELSE {}
             two == IF depth >= 2
                    THEN one \cup UNION {successors(m.graph, n) : n \in one}
                    ELSE one
         IN  {nid \in two : nid \in Keys(m.nodes)}

\* related_ids as a search to any depth: one more hop per level
RECURSIVE hops(_, _, _)
hops(g, ids, n) ==
    IF n <= 0 THEN ids
    ELSE hops(g, ids \cup UNION {successors(g, x) \cup predecessors(g, x) : x \in ids}, n - 1)

related_ids_any_depth(m, node_id, depth) ==
    IF node_id \notin Keys(m.nodes) \/ depth < 1 THEN {}
    ELSE {nid \in hops(m.graph, successors(m.graph, node_id) \cup predecessors(m.graph, node_id),
                       depth - 1) : nid \in Keys(m.nodes)}

\* related_ids without the successors
related_ids_predecessors(m, node_id, depth) ==
    IF node_id \notin Keys(m.nodes) THEN {}
    ELSE LET one == IF depth >= 1 THEN predecessors(m.graph, node_id) ELSE {}
             two == IF depth >= 2
                    THEN one \cup UNION {predecessors(m.graph, n) : n \in one}
                    ELSE one
         IN  {nid \in two : nid \in Keys(m.nodes)}

\* related_ids that never reports node_id itself from the second hop
related_ids_without_self(m, node_id, depth) ==
    IF node_id \notin Keys(m.nodes) THEN {}
    ELSE LET one == IF depth >= 1
                    THEN successors(m.graph, node_id) \cup predecessors(m.graph, node_id)
                    ELSE {}
             two == IF depth >= 2
                    THEN one \cup (UNION {successors(m.graph, n) \cup predecessors(m.graph, n) : n \in one}
                                    \ {node_id})
                    ELSE one
         IN  {nid \in two : nid \in Keys(m.nodes)}

\* the set related_ids that get_related_nodes builds, filtered by self.nodes
related_ids(m, node_id, depth) ==
    IF node_id \notin Keys(m.nodes) THEN {}
    ELSE LET one == IF depth >= 1
                    THEN successors(m.graph, node_id) \cup predecessors(m.graph, node_id)
                    ELSE {}
             two == IF depth >= 2
                    THEN one \cup UNION {successors(m.graph, n) \cup predecessors(m.graph, n) : n \in one}
                    ELSE one
         IN  {nid \in two : nid \in Keys(m.nodes)}

\* get_related_nodes returns a list with self.nodes[nid] for each nid the
\* iteration of the set related_ids yields: each node once, in an order the
\* code does not determine (a set of str).  The value here is that list
\* without its order: the set of the nodes in it.
get_related_nodes(m, node_id, depth) ==
    {Lookup(m.nodes, nid) : nid \in related_ids(m, node_id, depth)}

\* ------------------------------------------------------------ get_context
\* context_nodes with the matching nodes only
context_nodes_seeds_only(m, query, max_nodes) ==
    LET matching_nodes == find_nodes(m, query, NoType, max_nodes)
    IN  {matching_nodes[i] : i \in DOMAIN matching_nodes}

\* the set context_nodes: the matching nodes and, for each, its related nodes
context_nodes(m, query, max_nodes) ==
    LET matching_nodes == find_nodes(m, query, NoType, max_nodes)
    IN  {matching_nodes[i] : i \in DOMAIN matching_nodes}
        \cup UNION {get_related_nodes(m, matching_nodes[i].id, 1) : i \in DOMAIN matching_nodes}

\* the orders in which iterating a set can yield its elements
RECURSIVE iteration_orders(_)
iteration_orders(S) ==
    IF S = {} THEN {<<>>}
    ELSE UNION {{<<x>> \o r : r \in iteration_orders(S \ {x})} : x \in S}

\* sorted() computes the key of each element once, in iteration order, and
\* each key calls datetime.now(): n successive readings of a clock that had
\* reached now and does not run backwards
key_times(n, now) ==
    {t \in [1..n -> now..(now + MaxKeyDelay)] : \A i \in 1..(n - 1) : t[i] <= t[i + 1]}

\* the key (importance, access_count, seconds since updated_at) of the node
\* x.node, computed at time x.at, compared as tuples
context_key_ge(x, y) ==
    \/ x.node.importance > y.node.importance
    \/ /\ x.node.importance = y.node.importance
       /\ \/ x.node.access_count > y.node.access_count
          \/ /\ x.node.access_count = y.node.access_count
             /\ x.at - x.node.updated_at >= y.at - y.node.updated_at

\* sorted(..., reverse=True): descending and stable
RECURSIVE sort_context(_)
sort_context(s) ==
    IF s = <<>> THEN <<>>
    ELSE LET r == sort_context(SubSeq(s, 1, Len(s) - 1))
             x == s[Len(s)]
             k == Cardinality({i \in DOMAIN r : context_key_ge(r[i], x)})
         IN  SubSeq(r, 1, k) \o <<x>> \o SubSeq(r, k + 1, Len(r))

\* MemoryGraph.get_context: the lists the call can return, one for each
\* iteration order of the set and each run of the clock during the sort
get_context(m, query, max_nodes, now) ==
    LET cands == context_nodes(m, query, max_nodes)
        n == Cardinality(cands)
    IN  { LET keyed == [i \in 1..n |-> [node |-> o[i], at |-> t[i]]]
              sorted_nodes == sort_context(keyed)
          IN  slice_to([i \in 1..n |-> sorted_nodes[i].node], max_nodes)
          : o \in iteration_orders(cands), t \in key_times(n, now) }

\* ------------------------------------------------------------ merge_nodes
RECURSIVE ordered_unique(_)
ordered_unique(s) ==
    IF s = <<>> THEN <<>>
    ELSE LET r == ordered_unique(SubSeq(s, 1, Len(s) - 1))
             x == s[Len(s)]
         IN  IF \E i \in DOMAIN r : r[i] = x THEN r ELSE Append(r, x)

\* list(self.graph.predecessors(id)), in adjacency order
pred_list(g, id) ==
    LET into == SelectSeq(g.edges, LAMBDA e : e.target = id)
    IN  ordered_unique([i \in DOMAIN into |-> into[i].source])

\* list(self.graph.successors(id)), in adjacency order
succ_list(g, id) ==
    LET from == SelectSeq(g.edges, LAMBDA e : e.source = id)
    IN  ordered_unique([i \in DOMAIN from |-> from[i].target])

\* the edges between u and v as a graph without parallel edges keeps them
edges_between_single(g, u, v) ==
    LET es == SelectSeq(g.edges, LAMBDA e : e.source = u /\ e.target = v)
    IN  IF es = <<>> THEN <<>> ELSE <<es[1]>>

\* self.graph[u][v].values()
edges_between(g, u, v) ==
    SelectSeq(g.edges, LAMBDA e : e.source = u /\ e.target = v)

\* the add_edge calls of the first loop, in order
RECURSIVE in_calls(_, _, _, _)
in_calls(g, preds, source_id, target_id) ==
    IF preds = <<>> THEN <<>>
    ELSE LET es == edges_between(g, Head(preds), source_id)
         IN  [i \in DOMAIN es |-> [source |-> Head(preds), target |-> target_id,
                                   relationship |-> es[i].relationship,
                                   metadata |-> es[i].metadata]]
             \o in_calls(g, Tail(preds), source_id, target_id)

\* the add_edge calls of the second loop, in order
RECURSIVE out_calls(_, _, _, _)
out_calls(g, succs, source_id, target_id) ==
    IF succs = <<>> THEN <<>>
    ELSE LET es == edges_between(g, source_id, Head(succs))
         IN  [i \in DOMAIN es |-> [source |-> target_id, target |-> Head(succs),
                                   relationship |-> es[i].relationship,
                                   metadata |-> es[i].metadata]]
             \o out_calls(g, Tail(succs), source_id, target_id)

\* self.add_edge(..., RelationshipType(edge_data["relationship"]), ...) for
\* each call in turn; the first exception ends the run
RECURSIVE add_edges(_, _, _)
add_edges(m, calls, now) ==
    IF calls = <<>> THEN [m |-> m, err |-> "ok"]
    ELSE LET c == Head(calls)
         IN  IF c.relationship \notin RelationshipType
             THEN [m |-> m, err |-> "ValueError"]
             ELSE LET r == add_edge(m, c.source, c.target, c.relationship, c.metadata, now)
                  IN  IF r.err # "ok" THEN r ELSE add_edges(r.m, Tail(calls), now)

\* one transfer loop.  The inner loop iterates the dict of parallel edges
\* self.graph[u][v] while add_edge inserts into self.graph[u'][v'].  They are
\* the same dict exactly when source_id = target_id: the first add_edge then
\* grows the dict under iteration and the next step of the iteration raises
\* RuntimeError (dictionary changed size during iteration).
transfer(m, calls, source_id, target_id, now) ==
    IF source_id = target_id /\ calls # <<>>
    THEN LET r == add_edges(m, <<Head(calls)>>, now)
         IN  IF r.err # "ok" THEN r ELSE [m |-> r.m, err |-> "RuntimeError"]
    ELSE add_edges(m, calls, now)


NL == "\n"

\* the assignments with  =  for  +=  on access_count
merge_fields_keeps_count(source, target) ==
    [target EXCEPT !.content = target.content \o <<NL, NL>> \o source.content,
                   !.metadata = dict_update(target.metadata, source.metadata),
                   !.importance = Max(target.importance, source.importance),
                   !.access_count = source.access_count]

\* the assignments with the metadata overlaid the other way round
merge_fields_target_wins(source, target) ==
    [target EXCEPT !.content = target.content \o <<NL, NL>> \o source.content,
                   !.metadata = dict_update(source.metadata, target.metadata),
                   !.importance = Max(target.importance, source.importance),
                   !.access_count = target.access_count + source.access_count]

\* the four assignments to target; with source_id = target_id source and
\* target are the same object
merge_fields(source, target) ==
    [target EXCEPT !.content = target.content \o <<NL, NL>> \o source.content,
                   !.metadata = dict_update(target.metadata, source.metadata),
                   !.importance = Max(target.importance, source.importance),
                   !.access_count = target.access_count + source.access_count]

\* merge_nodes; target is the object the local variable target names when the
\* call ends, which a caller may still hold after the store dropped it
merge_nodes(m, source_id, target_id, now) ==
    IF source_id \notin Keys(m.nodes) \/ target_id \notin Keys(m.nodes)
    THEN [m |-> m, err |-> "ValueError", target |-> <<>>]
    ELSE
    LET source == Lookup(m.nodes, source_id)
        target == merge_fields(source, Lookup(m.nodes, target_id))
        m1 == [m EXCEPT !.nodes = dict_set(m.nodes, target)]
        r1 == transfer(m1, in_calls(m1.graph, pred_list(m1.graph, source_id),
                                    source_id, target_id),
                       source_id, target_id, now)
        r2 == transfer(r1.m, out_calls(r1.m.graph, succ_list(r1.m.graph, source_id),
                                       source_id, target_id),
                       source_id, target_id, now)
    IN  IF r1.err # "ok" THEN [m |-> r1.m, err |-> r1.err, target |-> <<target>>]
        ELSE IF r2.err # "ok" THEN [m |-> r2.m, err |-> r2.err, target |-> <<target>>]
        ELSE [m |-> [nodes |-> dict_del(r2.m.nodes, source_id),
                     graph |-> nx_remove_node(r2.m.graph, source_id)],
              err |-> "ok", target |-> <<target>>]

\* ---------------------------------------------------------------- from_dict
\* datetime.isoformat and datetime.fromisoformat: the text form of a time
isoformat(t) == <<"iso", t>>

fromisoformat(s) == s[2]

\* dict.get(key, default)
dict_get(d, key, default) == IF key \in DOMAIN d THEN d[key] ELSE default

\* MemoryNode.from_dict
node_from_dict(data) ==
    IF {"id", "type", "content", "created_at", "updated_at"} \ (DOMAIN data) # {}
    THEN [err |-> "KeyError"]
    ELSE IF data.type \notin NodeType
    THEN [err |-> "ValueError"]
    ELSE [err |-> "ok",
          node |-> [id |-> data.id, type |-> data.type, content |-> data.content,
                    metadata |-> dict_get(data, "metadata", NoMeta),
                    created_at |-> fromisoformat(data.created_at),
                    updated_at |-> fromisoformat(data.updated_at),
                    importance |-> dict_get(data, "importance", DefaultImportance),
                    access_count |-> dict_get(data, "access_count", 0),
                    last_accessed |-> IF dict_get(data, "last_accessed", <<>>) # <<>>
                                      THEN fromisoformat(data.last_accessed)
                                      ELSE NoTime]]

\* the first loop of from_dict
RECURSIVE restore_nodes(_, _)
restore_nodes(m, node_dicts) ==
    IF node_dicts = <<>> THEN [m |-> m, err |-> "ok"]
    ELSE LET r == node_from_dict(Head(node_dicts))
         IN  IF r.err # "ok" THEN [m |-> m, err |-> r.err]
             ELSE restore_nodes(add_node(m, r.node), Tail(node_dicts))

\* the second loop of from_dict
RECURSIVE restore_edges(_, _, _)
restore_edges(m, edge_dicts, now) ==
    IF edge_dicts = <<>> THEN [m |-> m, err |-> "ok"]
    ELSE LET d == Head(edge_dicts)
         IN  IF {"source", "target", "relationship"} \ (DOMAIN d) # {}
             THEN [m |-> m, err |-> "KeyError"]
             ELSE IF d.relationship \notin RelationshipType
             THEN [m |-> m, err |-> "ValueError"]
             ELSE LET r == add_edge(m, d.source, d.target, d.relationship,
                                    dict_get(d, "metadata", NoMeta), now)
                  IN  IF r.err # "ok" THEN r
                      ELSE restore_edges(r.m, Tail(edge_dicts), now)

\* MemoryGraph.from_dict: both stores are cleared first
from_dict(data, now) ==
    LET r == restore_nodes(NewMemoryGraph, dict_get(data, "nodes", <<>>))
    IN  IF r.err # "ok" THEN r
        ELSE restore_edges(r.m, dict_get(data, "edges", <<>>), now)

\* ------------------------------------------------------------------ to_dict
\* MemoryNode.to_dict; None is <<>>
node_to_dict(node) ==
    [id |-> node.id, type |-> node.type, content |-> node.content,
     metadata |-> node.metadata,
     created_at |-> isoformat(node.created_at),
     updated_at |-> isoformat(node.updated_at),
     importance |-> node.importance, access_count |-> node.access_count,
     last_accessed |-> IF node.last_accessed # NoTime
                       THEN isoformat(node.last_accessed) ELSE <<>>]

RECURSIVE flatten(_)
flatten(ss) == IF ss = <<>> THEN <<>> ELSE Head(ss) \o flatten(Tail(ss))

\* self.graph.edges(data=True): for each node in the order the nodes were
\* added (graph nodes are added and removed together with the keys of
\* self.nodes, so this is the order of the dict), for each of its successors in
\* adjacency order, the parallel edges in insertion order
graph_edges(m) ==
    flatten([i \in DOMAIN m.nodes |->
        LET u == m.nodes[i].id
            succs == succ_list(m.graph, u)
        IN  flatten([j \in DOMAIN succs |-> edges_between(m.graph, u, succs[j])])])

\* MemoryGraph.to_dict: an edge's created_at is not part of the dictionary
to_dict(m) ==
    LET es == graph_edges(m)
    IN  [nodes |-> [i \in DOMAIN m.nodes |-> node_to_dict(m.nodes[i])],
         edges |-> [i \in DOMAIN es |->
                        [source |-> es[i].source, target |-> es[i].target,
                         relationship |-> es[i].relationship,
                         metadata |-> es[i].metadata]]]

\* ------------------------------------------------------------------ Storage
\* json.dumps and json.loads on the values the model stores (dictionaries
\* with str keys, lists, str, int, None): the text form of a value
json_dumps(x) == <<"json", x>>

json_loads(text) == text[2]

\* no file at self.memory_path
NoFile == <<>>

\* a Storage value: whether initialize has created the tables, the rows of
\* memory_nodes, memory_edges and executions in rowid order, and the content
\* of memory.json; a new data directory holds neither tables nor file
NewStorage ==
    [tables |-> FALSE, memory_nodes |-> <<>>, memory_edges |-> <<>>,
     executions |-> <<>>, memory_json |-> NoFile]

\* Storage.initialize: CREATE TABLE IF NOT EXISTS
initialize(s) == [s EXCEPT !.tables = TRUE]

\* with open(self.memory_path, "w"): json.dump(data, f)
write_backup(s, data) == [s EXCEPT !.memory_json = <<json_dumps(data)>>]

\* the row INSERT INTO memory_nodes stores
node_row(d) ==
    [id |-> d.id, type |-> d.type, content |-> d.content,
     metadata |-> json_dumps(d.metadata),
     created_at |-> d.created_at, updated_at |-> d.updated_at,
     importance |-> d.importance, access_count |-> d.access_count,
     last_accessed |-> dict_get(d, "last_accessed", <<>>)]

\* the row INSERT INTO memory_edges stores
edge_row(d, now) ==
    [source_id |-> d.source, target_id |-> d.target,
     relationship |-> d.relationship,
     metadata |-> json_dumps(dict_get(d, "metadata", NoMeta)),
     created_at |-> isoformat(now)]

\* the database part of a save that keeps the rows it does not replace
write_primary_keeping(s, data, now) ==
    LET ids == {data.nodes[i].id : i \in DOMAIN data.nodes}
    IN  [s EXCEPT
            !.memory_nodes = SelectSeq(@, LAMBDA r : r.id \notin ids)
                             \o [i \in DOMAIN data.nodes |-> node_row(data.nodes[i])],
            !.memory_edges = @ \o [i \in DOMAIN data.edges |-> edge_row(data.edges[i], now)]]

\* the database part of save_memory_graph, committed: both tables are emptied
\* and the nodes, then the edges, are inserted
write_primary(s, data, now) ==
    [s EXCEPT
        !.memory_nodes = [i \in DOMAIN data.nodes |-> node_row(data.nodes[i])],
        !.memory_edges = [i \in DOMAIN data.edges |-> edge_row(data.edges[i], now)]]

\* Storage.save_memory_graph: the file is written first; without the tables
\* the first DELETE raises sqlite3.OperationalError
save_memory_graph(s, m, now) ==
    LET data == to_dict(m)
        s1 == write_backup(s, data)
    IN  IF ~s.tables THEN [s |-> s1, err |-> "OperationalError"]
        ELSE [s |-> write_primary(s1, data, now), err |-> "ok"]

\* save_memory_graph stopped after the file is closed (line 94) and before
\* the commit (line 133): the transaction is rolled back
save_memory_graph_stopped(s, m, now) == write_backup(s, to_dict(m))

\* node_data without the access_count column
row_node_data_without_count(row) ==
    [id |-> row.id, type |-> row.type, content |-> row.content,
     metadata |-> json_loads(row.metadata),
     created_at |-> row.created_at, updated_at |-> row.updated_at,
     importance |-> row.importance, last_accessed |-> row.last_accessed]

\* the node_data load_memory_graph builds from a row
row_node_data(row) ==
    [id |-> row.id, type |-> row.type, content |-> row.content,
     metadata |-> json_loads(row.metadata),
     created_at |-> row.created_at, updated_at |-> row.updated_at,
     importance |-> row.importance, access_count |-> row.access_count,
     last_accessed |-> row.last_accessed]

\* the edge_data load_memory_graph builds from a row
row_edge_data(row) ==
    [source |-> row.source_id, target |-> row.target_id,
     relationship |-> row.relationship, metadata |-> json_loads(row.metadata)]

\* load_memory_graph that reads the file whenever there is one
load_memory_graph_file_first(s, now) ==
    IF ~s.tables THEN [m |-> NewMemoryGraph, err |-> "OperationalError"]
    ELSE IF s.memory_json # NoFile THEN from_dict(json_loads(s.memory_json[1]), now)
    ELSE from_dict([nodes |-> [i \in DOMAIN s.memory_nodes |-> row_node_data(s.memory_nodes[i])],
                    edges |-> [i \in DOMAIN s.memory_edges |-> row_edge_data(s.memory_edges[i])]],
                   now)

\* Storage.load_memory_graph: SELECT * yields the rows in rowid order; without
\* the tables the first SELECT raises sqlite3.OperationalError
load_memory_graph(s, now) ==
    IF ~s.tables THEN [m |-> NewMemoryGraph, err |-> "OperationalError"]
    ELSE LET nodes_data == [i \in DOMAIN s.memory_nodes |-> row_node_data(s.memory_nodes[i])]
             edges_data == [i \in DOMAIN s.memory_edges |-> row_edge_data(s.memory_edges[i])]
             r1 == IF nodes_data # <<>>
                   THEN from_dict([nodes |-> nodes_data, edges |-> edges_data], now)
                   ELSE [m |-> NewMemoryGraph, err |-> "ok"]
         IN  IF r1.err # "ok" THEN r1
             ELSE IF r1.m.nodes = <<>> /\ s.memory_json # NoFile
             THEN from_dict(json_loads(s.memory_json[1]), now)
             ELSE r1

\* -------------------------------------------------------------------- MindAI
\* a MindAI value holds self.initialized and whether self.llm_client is set;
\* self.memory is the MemoryGraph and self.storage the Storage of the state
NewMindAI == [initialized |-> FALSE, llm_client |-> FALSE]

\* MindAI.initialize: the tables are created, self.memory is replaced by the
\* loaded graph and the LLMClient constructor succeeds (llm) or fails with a
\* warning; an error of load_memory_graph leaves self.initialized unset
mindai_initialize(a, m, s, llm, now) ==
    IF a.initialized THEN [a |-> a, m |-> m, s |-> s, err |-> "ok"]
    ELSE LET s1 == initialize(s)
             r == load_memory_graph(s1, now)
         IN  IF r.err # "ok" THEN [a |-> a, m |-> m, s |-> s1, err |-> r.err]
             ELSE [a |-> [initialized |-> TRUE, llm_client |-> llm],
                   m |-> r.m, s |-> s1, err |-> "ok"]

\* f"interaction_{datetime.now().timestamp()}": one id for each time
InteractionIds == <<"i0", "i1", "i2", "i3", "i4", "i5", "i6", "i7">>

interaction_id(now) == InteractionIds[now + 1]

\* the one registered skill, its result, and a name that is not registered
SkillName == "t"
SkillResult == "r"
UnknownSkill == "u"

\* f"User query: {query}\nSkill executed: {skill_name}\nResult: {result}"
interaction_content(query, skill_name, result) ==
    <<"U">> \o query \o <<NL, "S", skill_name, NL, "R", result>>

\* the loop of _update_memory_from_execution over context_nodes
RECURSIVE link_context(_, _, _, _)
link_context(m, nodes_to_link, id, now) ==
    IF nodes_to_link = <<>> THEN m
    ELSE link_context(add_edge(m, Head(nodes_to_link).id, id, "related_to", NoMeta, now).m,
                      Tail(nodes_to_link), id, now)

\* MindAI._update_memory_from_execution: the graphs it can leave, one for each
\* list get_context can return
update_memory_from_execution(m, query, skill_name, result, now) ==
    LET id == interaction_id(now)
        interaction_node ==
            MemoryNode(id, "event", interaction_content(query, skill_name, result),
                       [skill |-> skill_name, result |-> result], 6, 0, now)
        m1 == add_node(m, interaction_node)
    IN  {link_context(m1, linked, id, now) :
            linked \in get_context(m1, query, 5, now)}

\* Storage.log_execution
log_execution(s, skill_id, status) ==
    [s EXCEPT !.executions = Append(@, [skill_id |-> skill_id, status |-> status])]

\* the loop of MindAI.process over the skills the reasoning named: run is
\* "not_found" (no such skill), "raises" (execute raised) or "success"; each
\* recorded interaction takes one tick of the clock.  The value is the set of
\* outcomes [m, s, executions, now].
RECURSIVE execute_skills(_, _, _, _, _, _)
execute_skills(m, s, query, runs, executions, now) ==
    IF runs = <<>> THEN {[m |-> m, s |-> s, executions |-> executions, now |-> now]}
    ELSE LET run == Head(runs)
         IN  IF run = "not_found"
             THEN execute_skills(m, s, query, Tail(runs),
                                 Append(executions, [skill |-> UnknownSkill, status |-> "error"]),
                                 now)
             ELSE IF run = "raises"
             THEN execute_skills(m, log_execution(s, SkillName, "error"), query, Tail(runs),
                                 Append(executions, [skill |-> SkillName, status |-> "error"]),
                                 now)
             ELSE UNION {execute_skills(m2, log_execution(s, SkillName, "success"), query,
                                        Tail(runs),
                                        Append(executions, [skill |-> SkillName, status |-> "success"]),
                                        now + 1)
                            : m2 \in update_memory_from_execution(m, query, SkillName,
                                                                  SkillResult, now)}

\* MindAI.process: the outcomes [a, m, s, err, context, executions, now];
\* context is the list get_context(query, 20) gave the reasoning
process(a, m, s, query, llm, runs, now) ==
    LET i == mindai_initialize(a, m, s, llm, now)
        failed(err) == [a |-> i.a, m |-> i.m, s |-> i.s, err |-> err,
                        context |-> <<>>, executions |-> <<>>, now |-> now]
    IN  IF i.err # "ok" THEN {failed(i.err)}
        ELSE IF ~i.a.llm_client THEN {failed("ValueError")}
        ELSE UNION {
                {[a |-> i.a, m |-> o.m, s |-> save_memory_graph(o.s, o.m, o.now).s,
                  err |-> "ok", context |-> given, executions |-> o.executions,
                  now |-> o.now]
                    : o \in execute_skills(i.m, i.s, query, runs, <<>>, now)}
                : given \in get_context(i.m, query, 20, now)}

\* ------------------------------------------------------------ coroutines
\* Calls on one data directory run as coroutines that give way to each other
\* at their await points.  What a coroutine does between two await points is
\* one step; a task is a coroutine with its position pc and its local
\* variables.

\* the rows the first SELECT of load_memory_graph yields, as nodes_data
read_nodes(s) == [i \in DOMAIN s.memory_nodes |-> row_node_data(s.memory_nodes[i])]

\* the rows the second SELECT yields, as edges_data
read_edges(s) == [i \in DOMAIN s.memory_edges |-> row_edge_data(s.memory_edges[i])]

\* load_memory_graph after both SELECTs: if nodes_data: from_dict
load_primary(nodes_data, edges_data, now) ==
    IF nodes_data # <<>>
    THEN from_dict([nodes |-> nodes_data, edges |-> edges_data], now)
    ELSE [m |-> NewMemoryGraph, err |-> "ok"]

\* load_memory_graph after the connection is closed: the file is read when
\* the graph built so far has no node
load_fallback(s, loaded, now) ==
    IF loaded.nodes = <<>> /\ s.memory_json # NoFile
    THEN from_dict(json_loads(s.memory_json[1]), now)
    ELSE [m |-> loaded, err |-> "ok"]

\* the node add_memory constructs
add_memory_node(inp, now) ==
    MemoryNode(inp.id, inp.type, inp.content, inp.metadata, inp.importance, 0, now)

\* the row an INSERT stores for the snapshot entry d.  node_data["metadata"]
\* is the dict of the MemoryNode itself (to_dict does not copy it) and
\* json.dumps reads it when the INSERT runs: for an entry whose node object
\* is still in the graph m (its id in live) that is the metadata of now
insert_row(d, live, m) ==
    node_row([d EXCEPT !.metadata =
                IF d.id \in live /\ d.id \in Keys(m.nodes)
                THEN Lookup(m.nodes, d.id).metadata ELSE @])

\* a task that has not started
NewTask ==
    [pc |-> "idle", hydrated |-> FALSE, nodes_data |-> <<>>,
     loaded |-> NewMemoryGraph, data |-> to_dict(NewMemoryGraph), live |-> {},
     rows |-> <<>>, seen |-> {}, err |-> "ok"]

\* the committed content of the two tables as one document
StoreDoc(s) == [nodes |-> read_nodes(s), edges |-> read_edges(s)]

\* a data directory in which an earlier run saved the document d
persisted(d) == save_memory_graph(initialize(NewStorage), from_dict(d, 0).m, 0).s

\* ------------------------------------------------------------------ inputs
\* the nodes callers construct: (id, type, content, metadata, importance,
\* access_count); the last one replaces a by a node of another type
NodeInputs ==
    { <<"a", "entity", <<"A", "b">>, MetaK, 8, 0>>,
      <<"b", "event", <<"b", "a">>, MetaKJ, 5, 1>>,
      <<"c", "entity", <<"A">>, NoMeta, 5, 0>>,
      <<"a", "concept", <<"A">>, NoMeta, 5, 0>> }

\* the arguments callers pass to add_edge: (source, target, relationship,
\* metadata)
EdgeInputs ==
    { <<"a", "b", "related_to", NoMeta>>,
      <<"a", "b", "part_of", MetaK>>,
      <<"b", "c", "part_of", MetaK>>,
      <<"b", "a", "part_of", MetaK>>,
      <<"c", "a", "similar_to", NoMeta>>,
      <<"a", "a", "related_to", NoMeta>> }

Queries == { <<>>, <<"a", "B">>, <<"b">> }

QueryTypes == { NoType, "entity" }

NodeDict(id, type, content, metadata, importance, access_count) ==
    [id |-> id, type |-> type, content |-> content, metadata |-> metadata,
     created_at |-> isoformat(0), updated_at |-> isoformat(0),
     importance |-> importance, access_count |-> access_count,
     last_accessed |-> <<>>]

EdgeDict(source, target, relationship, metadata) ==
    [source |-> source, target |-> target, relationship |-> relationship,
     metadata |-> metadata]

\* a chain a -> b -> c -> d
DocChain ==
    [nodes |-> << NodeDict("a", "entity", <<"A", "b">>, MetaK, 8, 1),
                  NodeDict("b", "event", <<"b", "a">>, MetaKJ, 5, 2),
                  NodeDict("c", "concept", <<"A">>, NoMeta, 5, 0),
                  NodeDict("d", "task", <<"B">>, NoMeta, 2, 0) >>,
     edges |-> << EdgeDict("a", "b", "related_to", NoMeta),
                  EdgeDict("b", "c", "part_of", MetaK),
                  EdgeDict("c", "d", "caused_by", NoMeta) >>]

\* a self-loop, two parallel edges and an edge back
DocLoop ==
    [nodes |-> << NodeDict("a", "entity", <<"A", "b">>, MetaK, 5, 1),
                  NodeDict("b", "event", <<"b", "a">>, MetaKJ, 8, 2) >>,
     edges |-> << EdgeDict("a", "a", "related_to", NoMeta),
                  EdgeDict("a", "b", "part_of", MetaK),
                  EdgeDict("a", "b", "part_of", MetaK),
                  EdgeDict("b", "a", "similar_to", NoMeta) >>]

DocEmpty == [nodes |-> <<>>, edges |-> <<>>]

\* three nodes of one importance and access_count, updated at different times
DocTies ==
    [nodes |-> << NodeDict("a", "entity", <<"A", "b">>, MetaK, 5, 0),
                  [NodeDict("b", "event", <<"b", "a">>, NoMeta, 5, 0)
                      EXCEPT !.updated_at = isoformat(1)],
                  [NodeDict("c", "concept", <<"A">>, NoMeta, 5, 0)
                      EXCEPT !.updated_at = isoformat(1), !.last_accessed = isoformat(1)] >>,
     edges |-> << EdgeDict("b", "c", "involves", MetaK) >>]

\* an edge to a node the document does not hold, between two edges that are
\* well formed
DocDangling ==
    [nodes |-> << NodeDict("a", "entity", <<"A", "b">>, MetaK, 5, 1),
                  NodeDict("b", "event", <<"b", "a">>, NoMeta, 8, 0) >>,
     edges |-> << EdgeDict("a", "b", "related_to", NoMeta),
                  EdgeDict("b", "d", "part_of", MetaK),
                  EdgeDict("b", "a", "similar_to", NoMeta) >>]

Docs == { DocChain, DocLoop, DocEmpty, DocTies, DocDangling }

\* two add_memory calls and one load_memory_graph call of another user of the
\* data directory
AddMemoryTasks == {"t1", "t2"}

LoadTasks == {"ld"}

TaskIds == AddMemoryTasks \cup LoadTasks

\* the arguments of the add_memory calls; node_id is f"memory_{uuid.uuid4()}"
AddMemoryInputs ==
    [t1 |-> [id |-> "m1", type |-> "context", content |-> <<"A">>,
             metadata |-> MetaK, importance |-> 15],
     t2 |-> [id |-> "m2", type |-> "context", content |-> <<"b">>,
             metadata |-> NoMeta, importance |-> 5]]

\* the data directories the MindAI starts on: a new one and one that holds
\* DocLoop
AsyncStores == {NewStorage, persisted(DocLoop)}

\* the merge_nodes calls other coroutines make while the tasks run
AsyncMerges == { <<"b", "a">>, <<"a", "b">> }

\* ------------------------------------------------------------------- state
VARIABLES
    nodes,   \* self.nodes
    graph,   \* self.graph
    clock,   \* the time datetime.now() returns
    last,    \* the last call: its name, arguments and result
    pre,     \* the MemoryGraph value before the last call
    store,   \* the Storage: the database and memory.json in the data directory
    prestore,\* the Storage value before the last call
    agent,   \* the MindAI that owns the graph and the storage
    preagent,\* the MindAI value before the last call
    tasks    \* the coroutines in flight

vars == <<nodes, graph, clock, last, pre, store, prestore, agent, preagent, tasks>>

\* the MemoryGraph value of the current state
mem == [nodes |-> nodes, graph |-> graph]

\* no task has started; a load_memory_graph call starts at its first SELECT
NewTasks ==
    [t \in TaskIds |-> IF t \in LoadTasks THEN [NewTask EXCEPT !.pc = "load_nodes"]
                       ELSE NewTask]

\* the steps of the tasks, as last.op names them
StepOps == {"add_memory", "load_memory_graph_task"}

Init ==
    /\ nodes = NewMemoryGraph.nodes
    /\ graph = NewMemoryGraph.graph
    /\ clock = 0
    /\ last = [op |-> "init"]
    /\ pre = NewMemoryGraph
    /\ store = NewStorage
    /\ prestore = NewStorage
    /\ agent = NewMindAI
    /\ preagent = NewMindAI
    /\ tasks = NewTasks

\* A call that left the graph and the storage as they were (a query, a call
\* that failed before its first write, a lookup that missed) ends the run
\* explored: the calls that can follow it are the calls that can follow the
\* state before it, which has the same nodes, graph, clock and store.
\* A step of a task moves the task on, so it counts as a change.
Changed ==
    \/ last.op = "init"
    \/ mem # pre
    \/ store # prestore
    \/ agent # preagent
    \/ last.op \in StepOps

\* the step leaves the tasks as ts2, the MindAI as a2, the MemoryGraph as m2
\* and the Storage as s2 at time now
ReturnsTasks(ts2, a2, m2, s2, now, call) ==
    /\ Changed
    /\ nodes' = m2.nodes
    /\ graph' = m2.graph
    /\ clock' = now
    /\ last' = call
    /\ pre' = mem
    /\ store' = s2
    /\ prestore' = store
    /\ agent' = a2
    /\ preagent' = agent
    /\ tasks' = ts2

\* the call leaves the MindAI as a2, the MemoryGraph as m2 and the Storage as
\* s2 at time now; no task moves
ReturnsAgent(a2, m2, s2, now, call) == ReturnsTasks(tasks, a2, m2, s2, now, call)

\* a step of task t that leaves it as tk; time passes when the graph changed
Steps(t, tk, a2, m2, s2, call) ==
    ReturnsTasks([tasks EXCEPT ![t] = tk], a2, m2, s2,
                 IF m2 # mem THEN clock + 1 ELSE clock, call)

\* a call on the MemoryGraph and the Storage; time passes when the graph
\* changed
ReturnsStore(m2, s2, call) ==
    /\ m2 # mem => clock < MaxClock
    /\ ReturnsAgent(agent, m2, s2, IF m2 # mem THEN clock + 1 ELSE clock, call)

\* a call on the MemoryGraph alone
Returns(m2, call) == ReturnsStore(m2, store, call)

\* a query that counted an access on every node
after_query_counting(m, ret) ==
    [m EXCEPT !.nodes = [i \in DOMAIN m.nodes |-> [m.nodes[i] EXCEPT !.access_count = @ + 1]]]

\* the MemoryGraph after find_nodes, get_related_nodes or get_context returned
\* ret: the three read self.nodes and self.graph and assign to neither, nor to
\* a field of a node
after_query(m, ret) == m

AddNode ==
    \E inp \in NodeInputs :
        LET node == MemoryNode(inp[1], inp[2], inp[3], inp[4], inp[5], inp[6], clock)
        IN  Returns(add_node(mem, node), [op |-> "add_node", node |-> node])

GetNode ==
    \E id \in NodeIds :
        LET r == get_node(mem, id, clock)
        IN  Returns(r.m, [op |-> "get_node", id |-> id, ret |-> r.ret])

AddEdge ==
    \E inp \in EdgeInputs :
        LET r == add_edge(mem, inp[1], inp[2], inp[3], inp[4], clock)
        IN  Returns(r.m, [op |-> "add_edge", source |-> inp[1], target |-> inp[2],
                          relationship |-> inp[3], metadata |-> inp[4],
                          err |-> r.err])

MergeNodes ==
    \E s \in NodeIds, t \in NodeIds :
        LET r == merge_nodes(mem, s, t, clock)
        IN  Returns(r.m, [op |-> "merge_nodes", source |-> s, target |-> t,
                          err |-> r.err, node |-> r.target])

FromDict ==
    \E d \in Docs :
        LET r == from_dict(d, clock)
        IN  Returns(r.m, [op |-> "from_dict", data |-> d, err |-> r.err])

FindNodes ==
    \E q \in Queries, ty \in QueryTypes, limit \in 0..MaxLimit :
        LET ret == find_nodes(mem, q, ty, limit)
        IN  Returns(after_query(mem, ret),
                    [op |-> "find_nodes", query |-> q, node_type |-> ty,
                     limit |-> limit, ret |-> ret])

GetRelatedNodes ==
    \E id \in NodeIds, depth \in 0..MaxDepth :
        LET ret == get_related_nodes(mem, id, depth)
        IN  Returns(after_query(mem, ret),
                    [op |-> "get_related_nodes", id |-> id, depth |-> depth, ret |-> ret])

GetContext ==
    \E q \in Queries, max_nodes \in 0..MaxNodes :
        \E ret \in get_context(mem, q, max_nodes, clock) :
            Returns(after_query(mem, ret),
                    [op |-> "get_context", query |-> q, max_nodes |-> max_nodes, ret |-> ret])

Initialize ==
    ReturnsStore(mem, initialize(store), [op |-> "initialize"])

SaveMemoryGraph ==
    LET r == save_memory_graph(store, mem, clock)
    IN  ReturnsStore(mem, r.s, [op |-> "save_memory_graph", err |-> r.err])

\* the process ends during a save, between the file and the commit
SaveMemoryGraphStopped ==
    ReturnsStore(mem, save_memory_graph_stopped(store, mem, clock),
                 [op |-> "save_memory_graph", err |-> "stopped"])

\* load_memory_graph returns a new MemoryGraph; the caller's graph stays
LoadMemoryGraph ==
    LET r == load_memory_graph(store, clock)
    IN  ReturnsStore(mem, store, [op |-> "load_memory_graph", err |-> r.err, ret |-> r.m])

\* the reasoning names up to MaxSkills skills
SkillRuns ==
    UNION {[1..n -> {"not_found", "raises", "success"}] : n \in 0..MaxSkills}

\* whether the LLMClient constructor succeeds matters to the call that
\* initializes the MindAI
Process ==
    \E q \in Queries, runs \in SkillRuns,
       llm \in (IF agent.initialized THEN {agent.llm_client} ELSE BOOLEAN) :
        \E o \in process(agent, mem, store, q, llm, runs, clock) :
            /\ o.now <= MaxAgentClock
            /\ Len(o.s.executions) <= MaxExecutions
            /\ ReturnsAgent(o.a, o.m, o.s,
                            IF o.now = clock /\ o.m # mem THEN clock + 1 ELSE o.now,
                            [op |-> "process", query |-> q, runs |-> runs, err |-> o.err,
                             context |-> o.context, executions |-> o.executions])

\* the calls that write
Next ==
    \/ AddNode
    \/ GetNode
    \/ AddEdge
    \/ MergeNodes
    \/ FromDict

Spec == Init /\ [][Next]_vars

\* the calls that write, and the queries on every graph they reach
NextQuery ==
    \/ clock < MaxQueryClock /\ AddNode
    \/ clock < MaxQueryClock /\ GetNode
    \/ clock < MaxQueryClock /\ AddEdge
    \/ clock < MaxQueryClock /\ MergeNodes
    \/ clock < MaxQueryClock /\ FromDict
    \/ FindNodes
    \/ GetRelatedNodes

SpecQuery == Init /\ [][NextQuery]_vars

\* the calls that write, and the three queries on every graph they reach
NextContext ==
    \/ clock < MaxContextClock /\ AddNode
    \/ clock < MaxContextClock /\ GetNode
    \/ clock < MaxContextClock /\ AddEdge
    \/ clock < MaxContextClock /\ MergeNodes
    \/ clock < MaxContextClock /\ FromDict
    \/ FindNodes
    \/ GetRelatedNodes
    \/ GetContext

SpecContext == Init /\ [][NextContext]_vars

\* the Storage, and the calls that build the graphs it saves
NextStore ==
    \/ clock < MaxStoreClock /\ AddNode
    \/ clock < MaxStoreClock /\ MergeNodes
    \/ clock < MaxStoreClock /\ FromDict
    \/ Initialize
    \/ SaveMemoryGraph
    \/ SaveMemoryGraphStopped
    \/ LoadMemoryGraph

SpecStore == Init /\ [][NextStore]_vars

\* the task raised err
Failed(t, err, s2, at) ==
    Steps(t, [tasks[t] EXCEPT !.pc = "failed", !.err = err], agent, mem, s2,
          [op |-> IF t \in LoadTasks THEN "load_memory_graph_task" ELSE "add_memory",
           task |-> t, at |-> at, err |-> err])

\* add_memory from self.memory.add_node(node) to the first await of
\* save_memory_graph, on the graph m: the node is added, to_dict takes the
\* snapshot data and the file is written.  replaced tells that self.memory
\* was assigned a new graph just before, whose node objects are all new: no
\* snapshot of another task refers to a node of the graph any more.
EnterSave(t, a2, m, replaced, at) ==
    LET m1 == add_node(m, add_memory_node(AddMemoryInputs[t], clock))
        data == to_dict(m1)
        tk == [tasks[t] EXCEPT !.pc = "save_begin", !.hydrated = replaced,
                               !.data = data, !.live = Keys(m1.nodes)]
        ts == [u \in TaskIds |->
                IF u = t THEN tk
                ELSE IF replaced THEN [tasks[u] EXCEPT !.live = {}] ELSE tasks[u]]
    IN  ReturnsTasks(ts, a2, m1, write_backup(store, data), clock + 1,
                     [op |-> "add_memory", task |-> t, at |-> at, err |-> "ok"])

\* add_memory is called: an initialized MindAI goes on to add the node, another
\* one awaits self.initialize()
StartAddMemory ==
    \E t \in AddMemoryTasks :
        /\ tasks[t].pc = "idle"
        /\ IF agent.initialized
           THEN EnterSave(t, agent, mem, FALSE, "start")
           ELSE Steps(t, [tasks[t] EXCEPT !.pc = "initialize"], agent, mem, store,
                      [op |-> "add_memory", task |-> t, at |-> "start", err |-> "ok"])

\* MindAI.initialize: await self.storage.initialize()
StorageInitialize ==
    \E t \in AddMemoryTasks :
        /\ tasks[t].pc = "initialize"
        /\ Steps(t, [tasks[t] EXCEPT !.pc = "load_nodes"], agent, mem, initialize(store),
                 [op |-> "add_memory", task |-> t, at |-> "initialize", err |-> "ok"])

\* load_memory_graph: SELECT * FROM memory_nodes, in a transaction of its own
LoadNodes ==
    \E t \in TaskIds :
        /\ tasks[t].pc = "load_nodes"
        /\ IF ~store.tables THEN Failed(t, "OperationalError", store, "load_nodes")
           ELSE Steps(t, [tasks[t] EXCEPT !.pc = "load_edges",
                                          !.nodes_data = read_nodes(store),
                                          !.seen = {StoreDoc(store)}],
                      agent, mem, store,
                      [op |-> IF t \in LoadTasks THEN "load_memory_graph_task" ELSE "add_memory",
                       task |-> t, at |-> "load_nodes", err |-> "ok"])

\* load_memory_graph: SELECT * FROM memory_edges, in a second transaction, and
\* from_dict on what the two SELECTs gave
LoadEdges ==
    \E t \in TaskIds :
        /\ tasks[t].pc = "load_edges"
        /\ LET r == load_primary(tasks[t].nodes_data, read_edges(store), clock)
           IN  IF r.err # "ok" THEN Failed(t, r.err, store, "load_edges")
               ELSE Steps(t, [tasks[t] EXCEPT !.pc = "load_close", !.loaded = r.m,
                                              !.seen = @ \cup {StoreDoc(store)}],
                          agent, mem, store,
                          [op |-> IF t \in LoadTasks THEN "load_memory_graph_task"
                                  ELSE "add_memory",
                           task |-> t, at |-> "load_edges", err |-> "ok"])

\* load_memory_graph after the connection is closed: the fallback to the file
\* and the return.  In add_memory the caller is initialize, which assigns the
\* graph to self.memory and sets self.initialized (the LLMClient is
\* configured), and add_memory goes on to add its node.
LoadReturns ==
    \E t \in TaskIds :
        /\ tasks[t].pc = "load_close"
        /\ LET r == load_fallback(store, tasks[t].loaded, clock)
           IN  IF r.err # "ok" THEN Failed(t, r.err, store, "load_close")
               ELSE IF t \in LoadTasks
               THEN Steps(t, [tasks[t] EXCEPT !.pc = "done", !.loaded = r.m],
                          agent, mem, store,
                          [op |-> "load_memory_graph_task", task |-> t, at |-> "return",
                           err |-> "ok", ret |-> r.m])
               ELSE EnterSave(t, [initialized |-> TRUE, llm_client |-> TRUE], r.m, TRUE,
                              "load_close")

\* save_memory_graph: the two DELETEs open the write transaction; sqlite
\* admits one writer and another one waits for it (the busy timeout, after
\* which the waiting call would raise, does not expire here)
SaveBegin ==
    \E t \in AddMemoryTasks :
        /\ tasks[t].pc = "save_begin"
        /\ \A u \in TaskIds \ {t} : tasks[u].pc # "insert"
        /\ Steps(t, [tasks[t] EXCEPT !.pc = "insert", !.rows = <<>>], agent, mem, store,
                 [op |-> "add_memory", task |-> t, at |-> "save_begin", err |-> "ok"])

\* save_memory_graph: one INSERT INTO memory_nodes
InsertNode ==
    \E t \in AddMemoryTasks :
        /\ tasks[t].pc = "insert"
        /\ Len(tasks[t].rows) < Len(tasks[t].data.nodes)
        /\ LET d == tasks[t].data.nodes[Len(tasks[t].rows) + 1]
           IN  Steps(t, [tasks[t] EXCEPT !.rows = Append(@, insert_row(d, tasks[t].live, mem))],
                     agent, mem, store,
                     [op |-> "add_memory", task |-> t, at |-> "insert", err |-> "ok"])

\* save_memory_graph: the INSERTs INTO memory_edges and the commit, and
\* add_memory returns
Commit ==
    \E t \in AddMemoryTasks :
        /\ tasks[t].pc = "insert"
        /\ Len(tasks[t].rows) = Len(tasks[t].data.nodes)
        /\ LET data == tasks[t].data
               s2 == [store EXCEPT
                        !.memory_nodes = tasks[t].rows,
                        !.memory_edges = [i \in DOMAIN data.edges |-> edge_row(data.edges[i], clock)]]
           IN  Steps(t, [tasks[t] EXCEPT !.pc = "done"], agent, mem, s2,
                     [op |-> "add_memory", task |-> t, at |-> "commit", err |-> "ok"])

\* merge_nodes called by another coroutine on the graph of the MindAI
MergeLoaded ==
    /\ agent.initialized
    /\ \E p \in AsyncMerges :
        LET r == merge_nodes(mem, p[1], p[2], clock)
        IN  Returns(r.m, [op |-> "merge_nodes", source |-> p[1], target |-> p[2],
                          err |-> r.err, node |-> r.target])

\* the MindAI: process, and nodes added to its graph between the queries
NextAgent ==
    \/ clock < MaxAgentClock /\ agent.initialized /\ AddNode
    \/ Process

SpecAgent == Init /\ [][NextAgent]_vars

\* a MindAI constructed on one of the data directories
InitAsync ==
    /\ nodes = NewMemoryGraph.nodes
    /\ graph = NewMemoryGraph.graph
    /\ clock = 0
    /\ last = [op |-> "init"]
    /\ pre = NewMemoryGraph
    /\ store \in AsyncStores
    /\ prestore = store
    /\ agent = NewMindAI
    /\ preagent = NewMindAI
    /\ tasks = NewTasks

\* the coroutines: two add_memory calls on one MindAI, a load_memory_graph call
\* on the same data directory, and merges between their steps
NextAsync ==
    \/ StartAddMemory
    \/ StorageInitialize
    \/ LoadNodes
    \/ LoadEdges
    \/ LoadReturns
    \/ SaveBegin
    \/ InsertNode
    \/ Commit
    \/ MergeLoaded

SpecAsync == InitAsync /\ [][NextAsync]_vars

\* ================================================================== claims
\* the stored node under id in the store ns
Node(ns, id) == Lookup(ns, id)

IdsOf(ret) == {ret[i].id : i \in DOMAIN ret}

\* ------------------------------------------------------------------- C1
\* C1: for an id in the store, get_node(id) returns the node stored under id
\* with the content, importance and type it had and with access_count one
\* higher than before the call; a second call directly after the first leaves
\* it two higher than before the first; the node set and every other node's
\* access_count stay as they were.
C1_GetNodeCountsEachAccess ==
    [][ (last'.op = "get_node" /\ last'.id \in Keys(nodes)) =>
            LET id == last'.id
                before == Node(nodes, id)
                ret == last'.ret
            IN  /\ Len(ret) = 1
                /\ ret[1] = Node(nodes', id)
                /\ ret[1].id = id
                /\ ret[1].content = before.content
                /\ ret[1].importance = before.importance
                /\ ret[1].type = before.type
                /\ ret[1].access_count = before.access_count + 1
                /\ Keys(nodes') = Keys(nodes)
                /\ \A o \in Keys(nodes) \ {id} :
                        Node(nodes', o).access_count = Node(nodes, o).access_count
                /\ (last.op = "get_node" /\ last.id = id /\ id \in Keys(pre.nodes)) =>
                        ret[1].access_count = Node(pre.nodes, id).access_count + 2
      ]_vars

\* the second of two consecutive fetches of a node, in a store with other nodes
C1_Witness ==
    /\ last.op = "get_node"
    /\ last.ret # <<>>
    /\ Node(pre.nodes, last.id).last_accessed = clock - 2
    /\ last.ret[1].access_count = Node(pre.nodes, last.id).access_count + 1
    /\ Cardinality(Keys(nodes)) >= 2

\* ------------------------------------------------------------------- C2
\* C2: add_edge with a source or a target that is not in the store raises
\* ValueError and leaves self.nodes and self.graph (its node set and its
\* edges) exactly as they were.
C2_AddEdgeRejectsMissingEndpoint ==
    (last.op = "add_edge"
        /\ (last.source \notin Keys(pre.nodes) \/ last.target \notin Keys(pre.nodes)))
    => /\ last.err = "ValueError"
       /\ nodes = pre.nodes
       /\ graph = pre.graph

\* add_edge from a stored node to a missing one, in a graph that has edges
C2_Witness ==
    /\ last.op = "add_edge"
    /\ last.err = "ValueError"
    /\ last.source \in Keys(pre.nodes)
    /\ last.target \notin Keys(pre.nodes)
    /\ pre.graph.edges # <<>>
    /\ graph = pre.graph

\* ------------------------------------------------------------------- C3
MergedDistinct ==
    last.op = "merge_nodes" /\ last.err = "ok" /\ last.source # last.target

AccessSumBefore ==
    Node(pre.nodes, last.target).access_count + Node(pre.nodes, last.source).access_count

\* C3 as stated: after a successful merge_nodes(a, b) of two distinct nodes,
\* get_node(a) returns None and the node get_node(b) returns has access_count
\* equal to the sum of the two counts before the merge.
C3_AsStated ==
    [][ (MergedDistinct /\ last'.op = "get_node") =>
            /\ last'.id = last.source => last'.ret = <<>>
            /\ last'.id = last.target =>
                    /\ Len(last'.ret) = 1
                    /\ last'.ret[1].access_count = AccessSumBefore
      ]_vars

\* C3 amended: after a successful merge_nodes(a, b) of two distinct nodes the
\* stored access_count of b is the sum of the two counts before the merge;
\* get_node(a) returns None, and the node get_node(b) returns has that sum
\* plus one, the fetch counting itself.
C3_MergeThenGetNode ==
    [][ MergedDistinct =>
            /\ last.source \notin Keys(nodes)
            /\ Node(nodes, last.target).access_count = AccessSumBefore
            /\ last'.op = "get_node" =>
                    /\ last'.id = last.source => last'.ret = <<>>
                    /\ last'.id = last.target =>
                            /\ Len(last'.ret) = 1
                            /\ last'.ret[1].access_count = AccessSumBefore + 1
      ]_vars

\* the contents the inputs give to nodes
InputContents == { <<"A", "b">>, <<"b", "a">>, <<"A">>, <<"B">> }

\* a fetch of a node that holds the content of two different nodes, both
\* fetched before
C3_Witness ==
    /\ last.op = "get_node"
    /\ last.ret # <<>>
    /\ \E x \in InputContents, y \in InputContents :
            x # y /\ last.ret[1].content = x \o <<NL, NL>> \o y
    /\ last.ret[1].access_count >= 4
    /\ Cardinality(Keys(nodes)) >= 2

\* ------------------------------------------------------------------- C4
\* what identifies an edge but for its time of creation
EdgeKey(e) == <<e.source, e.target, e.relationship, e.metadata>>

\* the key of e with the node t put for the node s
MovedKey(e, s, t) ==
    <<IF e.source = s THEN t ELSE e.source,
      IF e.target = s THEN t ELSE e.target,
      e.relationship, e.metadata>>

Touches(e, id) == e.source = id \/ e.target = id

\* C4: after a successful merge_nodes(s, t) of two distinct nodes the edges
\* are the edges before with t put for s, each exactly once and with its
\* relationship and metadata: the multiset of edge keys is the multiset before
\* with s replaced by t, no edge touches s, the edges that did not touch s are
\* the same edges in the same order, and the number of edges is the same.
C4_MergeMovesEveryEdgeOnce ==
    MergedDistinct =>
        LET s == last.source
            t == last.target
            old == pre.graph.edges
            new == graph.edges
            kept == SelectSeq(old, LAMBDA e : ~Touches(e, s))
            keys == {EdgeKey(new[i]) : i \in DOMAIN new}
                        \cup {MovedKey(old[i], s, t) : i \in DOMAIN old}
        IN  /\ \A k \in keys :
                    Cardinality({i \in DOMAIN new : EdgeKey(new[i]) = k})
                        = Cardinality({i \in DOMAIN old : MovedKey(old[i], s, t) = k})
            /\ \A i \in DOMAIN new : ~Touches(new[i], s)
            /\ Len(new) >= Len(kept) /\ SubSeq(new, 1, Len(kept)) = kept
            /\ Len(new) = Len(old)
            /\ s \notin graph.nodes

\* a merge whose source had a self-loop, parallel edges to the target and an
\* edge from the target
C4_Witness ==
    /\ MergedDistinct
    /\ \E i \in DOMAIN pre.graph.edges :
            pre.graph.edges[i].source = last.source /\ pre.graph.edges[i].target = last.source
    /\ \E i, j \in DOMAIN pre.graph.edges :
            /\ i # j
            /\ EdgeKey(pre.graph.edges[i]) = EdgeKey(pre.graph.edges[j])
            /\ pre.graph.edges[i].source = last.source
            /\ pre.graph.edges[i].target = last.target
    /\ \E i \in DOMAIN pre.graph.edges :
            pre.graph.edges[i].source = last.target /\ pre.graph.edges[i].target = last.source
    /\ Len(graph.edges) = 4

\* ------------------------------------------------------------------- C5
\* C5: after a merge_nodes(s, t) that returns, the target has the content of
\* the old target, a blank line, and the content of the old source; the
\* metadata of the old target overlaid with that of the source (the source's
\* value on every key of the source, the target's on the others); the larger
\* of the two importances; the sum of the two access_counts; and its id and
\* type.  With s # t that target is the node stored under t.
C5_MergeCombinesFields ==
    (last.op = "merge_nodes" /\ last.err = "ok") =>
        LET src == Node(pre.nodes, last.source)
            tgt == Node(pre.nodes, last.target)
        IN  /\ Len(last.node) = 1
            /\ last.node[1].content = tgt.content \o <<NL, NL>> \o src.content
            /\ DOMAIN last.node[1].metadata = (DOMAIN tgt.metadata) \cup (DOMAIN src.metadata)
            /\ \A k \in DOMAIN src.metadata : last.node[1].metadata[k] = src.metadata[k]
            /\ \A k \in (DOMAIN tgt.metadata) \ (DOMAIN src.metadata) :
                    last.node[1].metadata[k] = tgt.metadata[k]
            /\ last.node[1].importance >= tgt.importance
            /\ last.node[1].importance >= src.importance
            /\ last.node[1].importance \in {tgt.importance, src.importance}
            /\ last.node[1].access_count = tgt.access_count + src.access_count
            /\ last.node[1].id = tgt.id
            /\ last.node[1].type = tgt.type
            /\ last.source # last.target =>
                    /\ last.target \in Keys(nodes)
                    /\ Node(nodes, last.target) = last.node[1]

\* a merge where the two nodes share a metadata key with different values, the
\* target has a key of its own, the source is more important and both counts
\* are positive
C5_Witness ==
    /\ MergedDistinct
    /\ LET src == Node(pre.nodes, last.source)
           tgt == Node(pre.nodes, last.target)
       IN  /\ \E k \in (DOMAIN src.metadata) \cap (DOMAIN tgt.metadata) :
                    src.metadata[k] # tgt.metadata[k]
           /\ (DOMAIN tgt.metadata) \ (DOMAIN src.metadata) # {}
           /\ src.importance > tgt.importance
           /\ src.access_count > 0 /\ tgt.access_count > 0
           /\ src.type # tgt.type

\* ------------------------------------------------------------------- C6
\* C6: merge_nodes(s, t) with s or t not in the store raises ValueError, and a
\* merge_nodes call that raises leaves self.nodes and self.graph as they were.
C6_MergeFailsWithoutEffect ==
    last.op = "merge_nodes" =>
        /\ (last.source \notin Keys(pre.nodes) \/ last.target \notin Keys(pre.nodes))
                => last.err = "ValueError"
        /\ last.err # "ok" => (nodes = pre.nodes /\ graph = pre.graph)

\* ------------------------------------------------------------------- C7
\* the same letter, whatever its case
SameLetter(x, y) ==
    \/ x = y
    \/ {x, y} = {"a", "A"}
    \/ {x, y} = {"b", "B"}

\* text occurs in content, whatever the case of the letters
Occurs(text, content) ==
    \E off \in 0..(Len(content) - Len(text)) :
        \A i \in 1..Len(text) : SameLetter(content[off + i], text[i])

\* node passes the two filters of a query
Passes(node, query, node_type) ==
    /\ node_type = NoType \/ node.type = node_type
    /\ query = <<>> \/ Occurs(query, node.content)

\* the ids of the nodes of ns that pass
Matching(ns, query, node_type) ==
    {id \in Keys(ns) : Passes(Node(ns, id), query, node_type)}

\* C7: find_nodes(query, node_type, limit) returns only stored nodes that pass
\* both filters (the type is node_type when one is given; query occurs in the
\* content whatever the case when it is not empty), so that an empty query
\* with no type filters nothing out; when at most limit nodes pass, each of
\* them is returned exactly once; and under that same condition the node the
\* add_node call just before put in the store is returned when it passes.
C7_FindNodesFilters ==
    [][ last'.op = "find_nodes" =>
            LET ret == last'.ret
                M == Matching(nodes', last'.query, last'.node_type)
            IN  /\ \A i \in DOMAIN ret :
                        ret[i].id \in M /\ ret[i] = Node(nodes', ret[i].id)
                /\ (last'.query = <<>> /\ last'.node_type = NoType) => M = Keys(nodes')
                /\ Cardinality(M) <= last'.limit =>
                        /\ IdsOf(ret) = M
                        /\ Len(ret) = Cardinality(M)
                        /\ (last.op = "add_node"
                                /\ Passes(last.node, last'.query, last'.node_type)) =>
                              \E i \in DOMAIN ret : ret[i] = last.node
      ]_vars

\* a query in another case than the content, right after the add_node of the
\* node it returns, with a stored node that it filters out
C7_Witness ==
    /\ last.op = "find_nodes"
    /\ last.query = <<"a", "B">>
    /\ clock >= 2
    /\ \E i \in DOMAIN last.ret :
            /\ last.ret[i].created_at = clock - 1
            /\ ~contains(last.ret[i].content, last.query)
    /\ Keys(nodes) \ IdsOf(last.ret) # {}
    /\ Len(last.ret) < last.limit

\* ------------------------------------------------------------------- C8
\* x sorts strictly below y: less important, or as important and fetched less
KeyBelow(x, y) ==
    \/ x.importance < y.importance
    \/ x.importance = y.importance /\ x.access_count < y.access_count

\* C8: for limit >= 0 find_nodes returns min(limit, number of nodes that
\* pass) nodes, no node twice, in descending order of (importance,
\* access_count), and no node that passes and is left out sorts strictly above
\* a node returned.
C8_FindNodesOrderAndLimit ==
    (last.op = "find_nodes" /\ last.limit >= 0) =>
        LET ret == last.ret
            M == Matching(nodes, last.query, last.node_type)
        IN  /\ Len(ret) = (IF last.limit < Cardinality(M) THEN last.limit ELSE Cardinality(M))
            /\ \A i, j \in DOMAIN ret : i < j =>
                    /\ ~KeyBelow(ret[i], ret[j])
                    /\ ret[i].id # ret[j].id
            /\ \A id \in M \ IdsOf(ret) : \A i \in DOMAIN ret :
                    ~KeyBelow(ret[i], Node(nodes, id))

\* a result cut by limit where importance decides against access_count
\* between the nodes returned and access_count decides which of two equally
\* important nodes is left out
C8_Witness ==
    /\ last.op = "find_nodes"
    /\ Len(last.ret) = 2
    /\ last.limit = 2
    /\ last.ret[1].importance > last.ret[2].importance
    /\ last.ret[1].access_count < last.ret[2].access_count
    /\ \E id \in Keys(nodes) \ IdsOf(last.ret) :
            /\ Passes(Node(nodes, id), last.query, last.node_type)
            /\ Node(nodes, id).importance = last.ret[2].importance
            /\ Node(nodes, id).access_count < last.ret[2].access_count

\* ------------------------------------------------------------------- C9
\* the nodes with an edge to or from id
Neighbours(id) ==
    {x \in NodeIds : \E i \in DOMAIN graph.edges :
        \/ graph.edges[i].source = id /\ graph.edges[i].target = x
        \/ graph.edges[i].target = id /\ graph.edges[i].source = x}

RelatedIds == {n.id : n \in last.ret}

\* C9 as stated: for a stored id, get_related_nodes(id, 1) does not hold the
\* node id and holds exactly the direct successors and predecessors of id,
\* each once.
C9_AsStated ==
    (last.op = "get_related_nodes" /\ last.depth = 1 /\ last.id \in Keys(nodes)) =>
        /\ last.id \notin RelatedIds
        /\ RelatedIds = Neighbours(last.id)
        /\ Cardinality(last.ret) = Cardinality(RelatedIds)
        /\ \A n \in last.ret : n = Node(nodes, n.id)

\* C9 amended: for a stored id, get_related_nodes(id, 1) holds exactly the
\* direct successors and predecessors of id, each once however many parallel
\* edges there are; it holds the node id itself exactly when id has an edge
\* to itself.
C9_DirectNeighbours ==
    (last.op = "get_related_nodes" /\ last.depth = 1 /\ last.id \in Keys(nodes)) =>
        /\ RelatedIds = Neighbours(last.id)
        /\ Cardinality(last.ret) = Cardinality(RelatedIds)
        /\ \A n \in last.ret : n = Node(nodes, n.id)
        /\ last.id \in RelatedIds <=>
                \E i \in DOMAIN graph.edges :
                    graph.edges[i].source = last.id /\ graph.edges[i].target = last.id

\* the direct neighbours of a node with an edge to itself, parallel edges to
\* another node and an edge back from it
C9_Witness ==
    /\ last.op = "get_related_nodes"
    /\ last.depth = 1
    /\ last.id \in RelatedIds
    /\ Cardinality(RelatedIds) = 2
    /\ \E i, j \in DOMAIN graph.edges :
            /\ i # j
            /\ graph.edges[i].source = last.id /\ graph.edges[j].source = last.id
            /\ graph.edges[i].target = graph.edges[j].target
            /\ graph.edges[i].target # last.id
    /\ \E i \in DOMAIN graph.edges :
            graph.edges[i].target = last.id /\ graph.edges[i].source # last.id

\* ------------------------------------------------------------------ C10
\* the nodes at most two edges away from id, in either direction
WithinTwo(id) == Neighbours(id) \cup UNION {Neighbours(n) : n \in Neighbours(id)}

\* C10: get_related_nodes with depth 0 returns nothing, and with every depth
\* of 2 or more it returns the nodes at most two edges away, so that every
\* depth of 3 or more gives the nodes that depth 2 gives.
C10_DepthCappedAtTwo ==
    last.op = "get_related_nodes" =>
        /\ last.depth = 0 => last.ret = {}
        /\ last.depth >= 2 =>
                /\ RelatedIds = (IF last.id \in Keys(nodes) THEN WithinTwo(last.id) ELSE {})
                /\ \A n \in last.ret : n = Node(nodes, n.id)

\* a call with depth 3 or more on a node that has a node three edges away:
\* the second hop adds nodes, the third does not
C10_Witness ==
    /\ last.op = "get_related_nodes"
    /\ last.depth >= 3
    /\ RelatedIds \ (Neighbours(last.id) \cup {last.id}) # {}
    /\ \E x \in Keys(nodes) \ RelatedIds :
            \E n \in WithinTwo(last.id) : x \in Neighbours(n)

\* ------------------------------------------------------------------ C11
\* C11: b is in get_related_nodes(a, 1) exactly when a is in
\* get_related_nodes(b, 1), for every two stored nodes; and after an add_edge
\* that succeeded, its target is in get_related_nodes(source, 1) and its source
\* is in get_related_nodes(target, 1).
C11_DirectRelatedSymmetric ==
    /\ \A a, b \in Keys(nodes) :
            Node(nodes, b) \in get_related_nodes(mem, a, 1)
                <=> Node(nodes, a) \in get_related_nodes(mem, b, 1)
    /\ (last.op = "add_edge" /\ last.err = "ok") =>
            /\ Node(nodes, last.target) \in get_related_nodes(mem, last.source, 1)
            /\ Node(nodes, last.source) \in get_related_nodes(mem, last.target, 1)

\* an add_edge between two distinct nodes with no edge between them before,
\* in a store with a third node that is related to neither through this edge
C11_Witness ==
    /\ last.op = "add_edge"
    /\ last.err = "ok"
    /\ last.source # last.target
    /\ ~\E i \in DOMAIN pre.graph.edges :
            {pre.graph.edges[i].source, pre.graph.edges[i].target} = {last.source, last.target}
    /\ Node(nodes, last.source) \in get_related_nodes(mem, last.target, 1)
    /\ Cardinality(Keys(nodes)) >= 3

\* ------------------------------------------------------------------ C12
\* the nodes find_nodes(query, limit = max_nodes) returns to the last call
Seeds == IdsOf(find_nodes(mem, last.query, NoType, last.max_nodes))

\* the seeds and the direct neighbours of each seed
Candidates == Seeds \cup UNION {Neighbours(id) : id \in Seeds}

\* C12: get_context(query, max_nodes) returns stored nodes that are seeds
\* (returned by find_nodes(query, limit = max_nodes)) or direct neighbours of a
\* seed, each at most once, and exactly min(max_nodes, number of candidates)
\* of them.
C12_GetContextReturnsCandidates ==
    last.op = "get_context" =>
        /\ IdsOf(last.ret) \subseteq Candidates
        /\ \A i \in DOMAIN last.ret : last.ret[i] = Node(nodes, last.ret[i].id)
        /\ Cardinality(IdsOf(last.ret)) = Len(last.ret)
        /\ Len(last.ret) = (IF last.max_nodes < Cardinality(Candidates)
                            THEN last.max_nodes ELSE Cardinality(Candidates))

\* a call that had more candidates than max_nodes and returned a node that is
\* a neighbour of a seed and not a seed
C12_Witness ==
    /\ last.op = "get_context"
    /\ last.max_nodes >= 1
    /\ Cardinality(Candidates) > last.max_nodes
    /\ Len(last.ret) = last.max_nodes
    /\ \E i \in DOMAIN last.ret : last.ret[i].id \notin Seeds

\* ------------------------------------------------------------------ C13
\* the number of edges of g from s to t with relationship r
TripleCount(g, s, t, r) ==
    Cardinality({i \in DOMAIN g.edges :
        g.edges[i].source = s /\ g.edges[i].target = t /\ g.edges[i].relationship = r})

\* m1 and m2 have the same node ids, the same content, type, importance and
\* access_count under each id and the same (source, target, relationship)
\* triples, each as many times
SameNodesAndTriples(m1, m2) ==
    /\ Keys(m1.nodes) = Keys(m2.nodes)
    /\ \A id \in Keys(m1.nodes) :
            /\ Node(m1.nodes, id).content = Node(m2.nodes, id).content
            /\ Node(m1.nodes, id).type = Node(m2.nodes, id).type
            /\ Node(m1.nodes, id).importance = Node(m2.nodes, id).importance
            /\ Node(m1.nodes, id).access_count = Node(m2.nodes, id).access_count
    /\ \A s \in NodeIds, t \in NodeIds, r \in RelationshipType :
            TripleCount(m1.graph, s, t, r) = TripleCount(m2.graph, s, t, r)

\* C13: a load_memory_graph that follows a completed save_memory_graph of the
\* graph g returns, without an error, a graph with the node ids of g, the
\* content, type, importance and access_count of each node of g and the
\* (source, target, relationship) triples of the edges of g.
C13_SaveThenLoadRoundTrip ==
    [][ (last.op = "save_memory_graph" /\ last.err = "ok"
            /\ last'.op = "load_memory_graph") =>
            /\ last'.err = "ok"
            /\ SameNodesAndTriples(last'.ret, mem)
      ]_vars

\* a load of the store that holds the save of the current graph, which has
\* an edge from a node to itself and two parallel edges
C13_Witness ==
    /\ last.op = "load_memory_graph"
    /\ last.err = "ok"
    /\ store.tables
    /\ store = save_memory_graph(store, mem, clock).s
    /\ \E s \in NodeIds, r \in RelationshipType : TripleCount(graph, s, s, r) >= 1
    /\ \E s \in NodeIds, t \in NodeIds, r \in RelationshipType :
            s # t /\ TripleCount(last.ret.graph, s, t, r) >= 2
    /\ \E id \in Keys(nodes) : Node(last.ret.nodes, id).access_count >= 1

\* ------------------------------------------------------------------ C14
\* the (source, target, relationship, metadata) of the edges of g, counted
SameEdges(g1, g2) ==
    /\ Len(g1.edges) = Len(g2.edges)
    /\ \A i \in DOMAIN g1.edges :
            LET same(e) == /\ e.source = g1.edges[i].source
                           /\ e.target = g1.edges[i].target
                           /\ e.relationship = g1.edges[i].relationship
                           /\ e.metadata = g1.edges[i].metadata
            IN  Cardinality({j \in DOMAIN g1.edges : same(g1.edges[j])})
                    = Cardinality({j \in DOMAIN g2.edges : same(g2.edges[j])})

\* C14: after a completed save_memory_graph, whatever was saved before it,
\* the storage holds the saved graph and nothing else: load_memory_graph
\* returns exactly its nodes (every field) and its edges, no row of the
\* database names a node that is not in it, and memory.json is its dictionary.
C14_SaveReplacesPersistedState ==
    (last.op = "save_memory_graph" /\ last.err = "ok") =>
        LET r == load_memory_graph(store, clock)
        IN  /\ r.err = "ok"
            /\ r.m.nodes = nodes
            /\ r.m.graph.nodes = graph.nodes
            /\ SameEdges(r.m.graph, graph)
            /\ Len(store.memory_nodes) = Len(nodes)
            /\ \A i \in DOMAIN store.memory_nodes : store.memory_nodes[i].id \in Keys(nodes)
            /\ Len(store.memory_edges) = Len(graph.edges)
            /\ json_loads(store.memory_json[1]) = to_dict(mem)

\* a completed save over a database that held a node and edges the saved
\* graph no longer has
C14_Witness ==
    /\ last.op = "save_memory_graph"
    /\ last.err = "ok"
    /\ nodes # <<>>
    /\ \E i \in DOMAIN prestore.memory_nodes : prestore.memory_nodes[i].id \notin Keys(nodes)
    /\ \E i \in DOMAIN prestore.memory_edges :
            prestore.memory_edges[i].target_id \notin Keys(nodes)
    /\ graph.edges # <<>>

\* ------------------------------------------------------------------ C15
\* the dictionary memory.json holds
BackupDoc == json_loads(store.memory_json[1])

\* the graph m has, in order, the nodes the records ns describe (ns[i].id,
\* type, content, importance, access_count) and the edges the records es
\* describe, es[i][1] -> es[i][2] with relationship es[i][3]
Holds(m, ns, es) ==
    /\ Len(m.nodes) = Len(ns)
    /\ \A i \in DOMAIN ns :
            /\ m.nodes[i].id = ns[i].id
            /\ m.nodes[i].type = ns[i].type
            /\ m.nodes[i].content = ns[i].content
            /\ m.nodes[i].importance = ns[i].importance
            /\ m.nodes[i].access_count = ns[i].access_count
    /\ m.graph.nodes = {ns[i].id : i \in DOMAIN ns}
    /\ Len(m.graph.edges) = Len(es)
    /\ \A i \in DOMAIN es :
            /\ m.graph.edges[i].source = es[i][1]
            /\ m.graph.edges[i].target = es[i][2]
            /\ m.graph.edges[i].relationship = es[i][3]

NewNodes == Keys(nodes) \ Keys(pre.nodes)

\* the nodes joined to id by an edge, in either direction
LinkedTo(id) ==
    {graph.edges[i].source : i \in {j \in DOMAIN graph.edges : graph.edges[j].target = id}}
    \cup {graph.edges[i].target : i \in {j \in DOMAIN graph.edges : graph.edges[j].source = id}}

\* C16 as stated: a process call on an initialized MindAI adds one node of
\* type event for each execution report, success or error, and every edge of
\* such a node is a related_to edge that joins it to a node of the context the
\* query had, each context node being joined to it.
C16_EveryReportRecorded ==
    (last.op = "process" /\ last.err = "ok" /\ preagent.initialized) =>
        /\ Cardinality(NewNodes) = Len(last.executions)
        /\ \A e \in NewNodes :
                /\ Node(nodes, e).type = "event"
                /\ LinkedTo(e) = IdsOf(last.context)
                /\ \A i \in DOMAIN graph.edges :
                        (graph.edges[i].source = e \/ graph.edges[i].target = e)
                            => graph.edges[i].relationship = "related_to"

\* ------------------------------------------------------------------ C17
\* no two entries of the store ns have one id
UniqueIds(ns) == \A i, j \in DOMAIN ns : ns[i].id = ns[j].id => i = j

\* C17 as stated: ids are unique in the store, and a call other than
\* from_dict (which empties the store first) leaves the type of every node
\* that is in the store before and after it as it was, add_node with an id
\* that is in the store included.
C17_TypeNeverChanges ==
    [][ /\ UniqueIds(nodes')
        /\ last'.op # "from_dict" =>
                \A id \in Keys(nodes) \cap Keys(nodes') :
                    Node(nodes', id).type = Node(nodes, id).type
      ]_vars

\* ------------------------------------------------------------------ C18
\* C18: get_related_nodes(id, 2) holds every node of get_related_nodes(id, 1),
\* and holds a node more whenever a direct neighbour of id has a neighbour
\* that is not a direct neighbour of id.
C18_DepthTwoExtendsDepthOne ==
    (last.op = "get_related_nodes" /\ last.depth = 2 /\ last.id \in Keys(nodes)) =>
        LET one == get_related_nodes(mem, last.id, 1)
        IN  /\ one \subseteq last.ret
            /\ (\E n \in Neighbours(last.id) :
                    \E x \in Neighbours(n) : x \notin Neighbours(last.id))
                    => one # last.ret

\* a call with depth 2 on a node that has neighbours, one of which has a
\* neighbour that is neither the node nor a direct neighbour of it
C18_Witness ==
    /\ last.op = "get_related_nodes"
    /\ last.depth = 2
    /\ get_related_nodes(mem, last.id, 1) # {}
    /\ \E x \in RelatedIds : x # last.id /\ x \notin Neighbours(last.id)

\* ------------------------------------------------------------------ C19
\* x comes after y in the order of the claim: lower importance, or the same
\* importance and a lower access_count, or the same of both and updated later
ComesAfter(x, y) ==
    \/ x.importance < y.importance
    \/ /\ x.importance = y.importance
       /\ \/ x.access_count < y.access_count
          \/ x.access_count = y.access_count /\ x.updated_at > y.updated_at

\* C19 as stated: in the list get_context returns, a node of higher
\* importance precedes one of lower importance, of two nodes of one importance
\* the one with the higher access_count comes first, and of two nodes equal in
\* both the one updated earlier comes first.
C19_ContextOrder ==
    last.op = "get_context" =>
        \A i, j \in DOMAIN last.ret : i < j => ~ComesAfter(last.ret[i], last.ret[j])

\* ------------------------------------------------------------------ C20
QueryOps == {"find_nodes", "get_related_nodes", "get_context"}

\* the nodes a query returned: find_nodes and get_context return a list,
\* get_related_nodes a list in the order of a set
Returned ==
    IF last.op = "get_related_nodes" THEN last.ret
    ELSE {last.ret[i] : i \in DOMAIN last.ret}

\* C20: find_nodes, get_related_nodes and get_context leave the graph as it
\* was: the same ids in the same order, every field of every node as before
\* (access_count, last_accessed and updated_at among them), the same edges in
\* the same number; and each node they return is the node stored under its id, with
\* the fields it had before the call.
C20_QueriesLeaveGraphUnchanged ==
    last.op \in QueryOps =>
        /\ Keys(nodes) = Keys(pre.nodes)
        /\ \A id \in Keys(nodes) : Lookup(nodes, id) = Lookup(pre.nodes, id)
        /\ nodes = pre.nodes
        /\ graph = pre.graph
        /\ \A n \in Returned : n.id \in Keys(pre.nodes) /\ Lookup(pre.nodes, n.id) = n

\* a get_context call that returned two nodes or more of a graph with an edge
C20_Witness ==
    /\ last.op = "get_context"
    /\ Cardinality(Returned) >= 2
    /\ graph_edges(pre) # <<>>
    /\ mem = pre

\* ------------------------------------------------------------------ C24
\* the calls that keep the node objects of the store: add_node stores the
\* object it is given and from_dict constructs every node anew
KeepsObjects == last.op \in {"get_node", "add_edge", "merge_nodes"}

\* C24 as stated: a call bumps the updated_at of a node exactly when it
\* changes the node's content or metadata, created_at never changes, and
\* last_accessed changes only in get_node.
C24_UpdatedAtFollowsChanges ==
    KeepsObjects =>
        \A id \in Keys(nodes) \cap Keys(pre.nodes) :
            LET n == Lookup(nodes, id)
                p == Lookup(pre.nodes, id)
            IN  /\ (n.content # p.content \/ n.metadata # p.metadata)
                        <=> n.updated_at # p.updated_at
                /\ n.created_at = p.created_at
                /\ n.last_accessed # p.last_accessed => last.op = "get_node"

\* ------------------------------------------------------------------ C26
\* C26: the keys of self.nodes are the nodes of self.graph and both ends of
\* every edge are keys of self.nodes, after every call, failed calls included.
C26_StoreConsistent ==
    /\ Keys(nodes) = graph.nodes
    /\ \A i \in DOMAIN graph.edges :
            graph.edges[i].source \in Keys(nodes) /\ graph.edges[i].target \in Keys(nodes)

\* a from_dict that failed at an edge after it had restored the nodes and an
\* edge before it
C26_Witness ==
    /\ last.op = "from_dict"
    /\ last.err = "ValueError"
    /\ nodes # <<>>
    /\ graph.edges # <<>>

\* ------------------------------------------------------------------ C27
\* C27 as stated: a merge_nodes(s, t) that returns without error leaves t in
\* the store with the content of t, a blank line and the content of s, and
\* removes one node, s when the two differ; merge_nodes(a, a) never removes a,
\* and when it fails it leaves the graph as it was.
C27_MergeKeepsTarget ==
    last.op = "merge_nodes" =>
        /\ last.err = "ok" =>
            /\ last.target \in Keys(nodes)
            /\ Lookup(nodes, last.target).content =
                    Lookup(pre.nodes, last.target).content \o <<NL, NL>>
                        \o Lookup(pre.nodes, last.source).content
            /\ last.source # last.target =>
                    Keys(nodes) = Keys(pre.nodes) \ {last.source}
        /\ (last.source = last.target /\ last.source \in Keys(pre.nodes)) =>
            /\ last.source \in Keys(nodes)
            /\ last.err # "ok" => mem = pre

\* ------------------------------------------------------------------ C29
\* the edges a call added: add_edge appends and process removes none
AddedEdges == SubSeq(graph.edges, Len(pre.graph.edges) + 1, Len(graph.edges))

\* C29 as stated: no related_to edge that process added through
\* _update_memory_from_execution starts at the interaction node it ends at,
\* so process adds no self-loop.
C29_NoSelfLink ==
    (last.op = "process" /\ last.err = "ok") =>
        \A i \in DOMAIN AddedEdges : AddedEdges[i].source # AddedEdges[i].target

\* ------------------------------------------------------------------ C21
\* the snapshots of the saves that have started
Snapshots ==
    {tasks[t].data : t \in {u \in AddMemoryTasks : tasks[u].pc \in {"save_begin", "insert", "done"}}}

\* the graphs a load may return under the claim: what the tables held,
\* committed, at one of the moments the load read them, and what a save that
\* has started is saving
CompleteGraphs(t) ==
    {to_dict(from_dict(d, 0).m) : d \in tasks[t].seen \cup Snapshots}

\* C21 as stated: a load_memory_graph that runs while saves are in progress
\* returns a graph that was persisted whole or is being saved whole, never a
\* mix of two and never an empty graph in place of one that has nodes.
C21_LoadReturnsOneGraph ==
    (last.op = "load_memory_graph_task" /\ last.at = "return") =>
        to_dict(last.ret) \in CompleteGraphs(last.task)

\* ------------------------------------------------------------------ C22
\* the file memory.json holds a document from_dict accepts
BackupUsable ==
    /\ store.memory_json # NoFile
    /\ from_dict(json_loads(store.memory_json[1]), clock).err = "ok"

\* C22 as stated: when building the graph from the rows of the two tables
\* fails, load_memory_graph goes on to the file, so the load raises at that
\* point only if the file cannot be used either.
C22_LoadFallsBackOnFailure ==
    (last.op \in StepOps /\ last.at = "load_edges" /\ last.err # "ok") => ~BackupUsable

\* ------------------------------------------------------------------ C23
\* every add_memory call has returned
AllReturned == \A t \in AddMemoryTasks : tasks[t].pc = "done"

\* the tasks whose initialize assigned self.memory
Hydrated == {t \in AddMemoryTasks : tasks[t].hydrated}

\* the ids the add_memory calls added
AddedIds == {AddMemoryInputs[t].id : t \in AddMemoryTasks}

\* C23 as stated: the saves of concurrent add_memory calls on one initialized
\* MindAI do not overtake each other, so once both calls have returned a load
\* returns every node they added.
C23_SavesDoNotOvertake ==
    (AllReturned /\ Cardinality(Hydrated) <= 1) =>
        LET r == load_memory_graph(store, clock)
        IN  r.err = "ok" /\ AddedIds \subseteq Keys(r.m.nodes)

\* ------------------------------------------------------------------ C28
\* C28 as stated: whatever the interleaving of the add_memory calls started on
\* an uninitialized MindAI, one of them at most assigns self.memory, the
\* assignment never replaces a graph that holds an added node, and once all
\* calls have returned the graph in memory and the persisted store hold every
\* added node.
C28_HydratesOnce ==
    /\ Cardinality(Hydrated) <= 1
    /\ (last.op = "add_memory" /\ last.at = "load_close") =>
            Keys(pre.nodes) \cap AddedIds = {}
    /\ AllReturned =>
            /\ AddedIds \subseteq Keys(nodes)
            /\ AddedIds \subseteq Keys(load_memory_graph(store, clock).m.nodes)

\* ------------------------------------------------------------------ C30
\* C30 as stated: the node rows a save commits are the rows of the snapshot
\* it took when it was called, each with its content, metadata, importance
\* and access_count of that moment, which is also what it wrote to the file.
C30_SavePersistsSnapshot ==
    (last.op = "add_memory" /\ last.at = "commit") =>
        LET data == tasks[last.task].data
        IN  store.memory_nodes = [i \in DOMAIN data.nodes |-> node_row(data.nodes[i])]

\* ------------------------------------------------------------------ C25
\* importance is in tenths: the range [0.0, 1.0] is 0..10
InRange(n) == n.importance \in 0..10

\* C25 as stated: every node of the store has its importance within
\* [0.0, 1.0], whatever the calls that put it there were given, and so has
\* every node find_nodes returns.
C25_ImportanceInRange ==
    /\ \A i \in DOMAIN nodes : InRange(nodes[i])
    /\ LET found == find_nodes(mem, <<>>, NoType, Len(nodes))
       IN  \A i \in DOMAIN found : InRange(found[i])

====
